---- MODULE Spec2Model ----
\* A model of the decision-capture engine of xray-sdk:
\*   src/xray/sampler.py      DecisionSampler.sample, DecisionSampler.compute_stats
\*   src/xray/config.py       the limits and the sampler defaults
\*   src/api/routes/ingest.py create_run, record_step, complete_run
\*   src/api/db/database.py   the per-request session (get_db)
\*
\* Three specifications share the variables:
\*   SpecSampler  the two methods of DecisionSampler applied to decision lists
\*                drawn from a bounded set, for every threshold / per_reason;
\*   Spec         the ingest API on top of a store, one request at a time;
\*   SpecRandom   sample() invocations of several requests on the generator
\*                of the `random` module.
EXTENDS Integers, Sequences, FiniteSets, TLC

\* ---------------------------------------------------------------------------
\* Bounds of the model
\* ---------------------------------------------------------------------------
\* longest decision list handed to the sampler in SpecSampler
MaxLen == 3
\* DecisionSampler(threshold, per_reason) is built with threshold in
\* 0..MaxThreshold and per_reason in 0..MaxPerReason in SpecSampler
MaxThreshold == 2
MaxPerReason == 1
\* create_run is accepted while fewer than MaxRuns runs exist
MaxRuns == 1
\* record_step requests are issued while fewer than MaxSteps steps are stored
MaxSteps == 2

\* sample() invocations that share the generator in SpecRandom
MaxInvocations == 2
\* the state of the generator behind the `random` module has GeneratorBits bits
GeneratorBits == 4
\* the workers that handle record_step requests at the same time
MaxWorkers == 2
\* the calls the instrumented pipeline makes on its XRay client
MaxCalls == 3

\* The limits of config.py (100_000 decisions, 1000 evidence items) and the
\* defaults of DecisionSampler.__init__ (threshold = 500, per_reason = 50),
\* scaled down so that the lists around each limit can be enumerated.  The
\* order of the source values is kept: per_reason < threshold <
\* MAX_DECISIONS_PER_STEP, and MAX_EVIDENCE_PER_STEP < MAX_DECISIONS_PER_STEP.
MAX_DECISIONS_PER_STEP == 3
MAX_EVIDENCE_PER_STEP == 2
ThresholdDefault == 2
PerReasonDefault == 1

\* ---------------------------------------------------------------------------
\* Values
\* ---------------------------------------------------------------------------
\* Python's None for an optional string
None == "<None>"

\* xray.models.Decision.  metadata is modelled by its "sequence" entry alone:
\* <<>> is a metadata that is None, {} or has no "sequence" key, <<n>> is a
\* metadata with sequence = n.  score and timestamp play no role in
\* the engine and are left out.
DecisionTypes == {"accepted", "rejected", "pending"}

\* the reasons a rejected decision is given in the enumerated inputs
Reasons == {None, "", "price"}

\* the metadata a caller gives a decision in the enumerated inputs
Metadatas == {<<>>, <<1>>}

\* the (decision_type, reason, metadata) combinations enumerated; the reason of
\* accepted and pending decisions is never read for grouping, it stays None
DecisionShapes ==
    {[decision_type |-> "accepted", reason |-> None, metadata |-> m] : m \in Metadatas}
    \cup {[decision_type |-> "pending", reason |-> None, metadata |-> <<>>]}
    \cup {[decision_type |-> "rejected", reason |-> "price", metadata |-> m] : m \in Metadatas}
    \cup {[decision_type |-> "rejected", reason |-> r, metadata |-> <<>>] : r \in Reasons}

MkDecision(cid, shape) ==
    [candidate_id |-> cid, decision_type |-> shape.decision_type,
     reason |-> shape.reason, metadata |-> shape.metadata]

\* the decision lists of length n over a set of shapes; the i-th decision has
\* candidate_id i, so that the decisions of a list are pairwise distinct
ListsOfLen(shapes, n) ==
    {[i \in 1..n |-> MkDecision(i, f[i])] : f \in [1..n -> shapes]}

ListsUpTo(shapes, n) == UNION {ListsOfLen(shapes, k) : k \in 0..n}

\* ---------------------------------------------------------------------------
\* Helpers on sequences
\* ---------------------------------------------------------------------------
RECURSIVE FilterSeq(_, _)
\* the subsequence of s of the elements whose index is in the set keep
FilterSeq(s, keep) ==
    IF s = <<>> THEN <<>>
    ELSE LET n == Len(s)
             front == FilterSeq(SubSeq(s, 1, n - 1), keep)
         IN IF n \in keep THEN Append(front, s[n]) ELSE front

RECURSIVE Gcd(_, _)
Gcd(a, b) == IF b = 0 THEN a ELSE Gcd(b, a % b)

\* Python's true division of two non-negative ints, d > 0, as the exact ratio
\* in lowest terms (the float nearest to n/d is a function of that ratio)
Div(n, d) == LET g == Gcd(n, d) IN <<n \div g, d \div g>>

\* the float 0.0
Zero == <<0, 1>>

\* ---------------------------------------------------------------------------
\* src/xray/sampler.py
\* ---------------------------------------------------------------------------
\* `d.reason or "unknown"`: None and the empty string are both falsy
ReasonKey(d) == IF d.reason = None \/ d.reason = "" THEN "unknown" ELSE d.reason

\* the sort key of sample(): d.metadata.get("sequence", 0) if d.metadata else 0
SequenceKey(d) == IF d.metadata = <<>> THEN 0 ELSE d.metadata[1]

IsAccepted(d) == d.decision_type = "accepted"
IsRejected(d) == d.decision_type = "rejected"
\* the else branch of the partition: every type that is neither of the two
IsPending(d) == ~IsAccepted(d) /\ ~IsRejected(d)

NoReasons == [r \in {} |-> 0]

\* a variant of NumAccepted that counts every decision that is not rejected
NumAccepted_NotRejected(ds) == Cardinality({i \in 1..Len(ds) : ~IsRejected(ds[i])})

\* accepted = sum(1 for d in decisions if d.decision_type == "accepted")
NumAccepted(ds) == Cardinality({i \in 1..Len(ds) : IsAccepted(ds[i])})

\* rejected = sum(1 for d in decisions if d.decision_type == "rejected")
NumRejected(ds) == Cardinality({i \in 1..Len(ds) : IsRejected(ds[i])})

\* a variant of ReasonCounts without the `if d.decision_type == "rejected"`
ReasonCounts_AllTypes(ds) ==
    [r \in {ReasonKey(ds[i]) : i \in 1..Len(ds)} |->
        Cardinality({i \in 1..Len(ds) : ReasonKey(ds[i]) = r})]

\* the loop that fills `reasons`
ReasonCounts(ds) ==
    LET keys == {ReasonKey(ds[i]) : i \in {j \in 1..Len(ds) : IsRejected(ds[j])}}
    IN [r \in keys |->
          Cardinality({i \in 1..Len(ds) : IsRejected(ds[i]) /\ ReasonKey(ds[i]) = r})]

\* DecisionSampler.compute_stats
compute_stats(ds) ==
    IF ds = <<>>
    THEN [input_count |-> 0, output_count |-> 0,
          rejection_rate |-> Zero, rejection_reasons |-> NoReasons]
    ELSE LET total == Len(ds)
             accepted == NumAccepted(ds)
             rejected == NumRejected(ds)
             reasons == ReasonCounts(ds)
         IN [input_count |-> total,
             output_count |-> accepted,
             rejection_rate |-> IF total # 0 THEN Div(rejected, total) ELSE Zero,
             rejection_reasons |-> reasons]

\* the accepted / pending buckets and the by_reason groups of sample(), each in
\* the order of the input
AcceptedOf(ds) == FilterSeq(ds, {i \in 1..Len(ds) : IsAccepted(ds[i])})
\* a variant of PendingOf that loses the pending bucket
PendingOf_Dropped(ds) == <<>>

PendingOf(ds) == FilterSeq(ds, {i \in 1..Len(ds) : IsPending(ds[i])})
GroupOf(ds, r) ==
    FilterSeq(ds, {i \in 1..Len(ds) : IsRejected(ds[i]) /\ ReasonKey(ds[i]) = r})

RECURSIVE ReasonOrder(_)
\* the keys of by_reason in dict (insertion) order: by first rejected decision
ReasonOrder(ds) ==
    IF ds = <<>> THEN <<>>
    ELSE LET n == Len(ds)
             front == ReasonOrder(SubSeq(ds, 1, n - 1))
             d == ds[n]
         IN IF IsRejected(d) /\ ~(\E i \in 1..Len(front) : front[i] = ReasonKey(d))
            THEN Append(front, ReasonKey(d))
            ELSE front

\* random.sample(items, k), 0 <= k <= len(items): the possible returns are the
\* lists of k elements taken at k distinct positions of items, in any order
random_sample(items, k) ==
    {[j \in 1..k |-> items[p[j]]] :
        p \in {q \in [1..k -> 1..Len(items)] :
                 \A a, b \in 1..k : a # b => q[a] # q[b]}}

\* a variant of KeptWhole with `<` for `<=`
KeptWhole_BelowCap(items, per_reason) == Len(items) < per_reason

\* `if len(items) <= self.per_reason:` the group is extended whole, no draw
KeptWhole(items, per_reason) == Len(items) <= per_reason

\* a variant of GroupChoices without the `else`: the group over the cap is
\* extended whole and then drawn from
GroupChoices_KeepsAndDraws(items, per_reason) ==
    IF KeptWhole(items, per_reason) THEN {items}
    ELSE {items \o drawn : drawn \in random_sample(items, per_reason)}

\* a variant of GroupChoices that draws one decision too few
GroupChoices_OffByOne(items, per_reason) ==
    IF Len(items) <= per_reason THEN {items} ELSE random_sample(items, per_reason - 1)

\* what the loop body of sample() appends for one group
GroupChoices(items, per_reason) ==
    IF KeptWhole(items, per_reason) THEN {items} ELSE random_sample(items, per_reason)

RECURSIVE SampledRejected(_, _, _)
\* the possible values of sampled_rejected after the loop over the groups
\* named by keys (in that order)
SampledRejected(ds, keys, per_reason) ==
    IF keys = <<>> THEN {<<>>}
    ELSE {front \o g :
            front \in SampledRejected(ds, SubSeq(keys, 1, Len(keys) - 1), per_reason),
            g \in GroupChoices(GroupOf(ds, keys[Len(keys)]), per_reason)}

\* list.sort(key=...) is stable: x goes after every element whose key is <= its key
InsertSorted(sorted, x) ==
    LET p == Cardinality({i \in 1..Len(sorted) : SequenceKey(sorted[i]) <= SequenceKey(x)})
    IN SubSeq(sorted, 1, p) \o <<x>> \o SubSeq(sorted, p + 1, Len(sorted))

RECURSIVE SortBySequence(_)
SortBySequence(s) ==
    IF s = <<>> THEN <<>>
    ELSE InsertSorted(SortBySequence(SubSeq(s, 1, Len(s) - 1)), s[Len(s)])

\* a variant of sample with `<` for `<=` in the threshold test
sample_StrictThreshold(ds, threshold, per_reason) ==
    IF Len(ds) < threshold
    THEN {<<ds, FALSE>>}
    ELSE {<<SortBySequence(AcceptedOf(ds) \o sr \o PendingOf(ds)), TRUE>> :
            sr \in SampledRejected(ds, ReasonOrder(ds), per_reason)}

\* a variant of sample without the final result.sort(...)
sample_NoSort(ds, threshold, per_reason) ==
    IF Len(ds) <= threshold
    THEN {<<ds, FALSE>>}
    ELSE {<<AcceptedOf(ds) \o sr \o PendingOf(ds), TRUE>> :
            sr \in SampledRejected(ds, ReasonOrder(ds), per_reason)}

\* a variant of sample that takes threshold = 0 for "no threshold set"
\* (`if not self.threshold or len(decisions) <= self.threshold`)
sample_ZeroThresholdDisabled(ds, threshold, per_reason) ==
    IF threshold = 0 \/ Len(ds) <= threshold
    THEN {<<ds, FALSE>>}
    ELSE {<<SortBySequence(AcceptedOf(ds) \o sr \o PendingOf(ds)), TRUE>> :
            sr \in SampledRejected(ds, ReasonOrder(ds), per_reason)}

\* a variant of sample whose flag says whether decisions were dropped
\* (`return result, len(result) < len(decisions)`)
sample_FlagIsReduction(ds, threshold, per_reason) ==
    IF Len(ds) <= threshold
    THEN {<<ds, FALSE>>}
    ELSE {<<SortBySequence(AcceptedOf(ds) \o sr \o PendingOf(ds)),
            Len(AcceptedOf(ds) \o sr \o PendingOf(ds)) < Len(ds)>> :
            sr \in SampledRejected(ds, ReasonOrder(ds), per_reason)}

\* DecisionSampler.sample: the set of possible returns <<sampled_list, was_sampled>>
sample(ds, threshold, per_reason) ==
    IF Len(ds) <= threshold
    THEN {<<ds, FALSE>>}
    ELSE {<<SortBySequence(AcceptedOf(ds) \o sr \o PendingOf(ds)), TRUE>> :
            sr \in SampledRejected(ds, ReasonOrder(ds), per_reason)}

\* ---------------------------------------------------------------------------
\* random.sample on the generator of the `random` module
\* ---------------------------------------------------------------------------
\* sampler.py calls random.sample, a method of the one Random instance the
\* `random` module creates at import.  Its Mersenne Twister is modelled by a
\* full-period linear congruential generator with GeneratorBits bits of state:
\* what matters is that every draw reads and advances the state.
RECURSIVE Pow2(_)
Pow2(n) == IF n = 0 THEN 1 ELSE 2 * Pow2(n - 1)

GeneratorStates == 0..(Pow2(GeneratorBits) - 1)

\* the state after one output
NextState(g) == (5 * g + 3) % Pow2(GeneratorBits)

RECURSIVE BitLength(_)
\* int.bit_length()
BitLength(n) == IF n = 0 THEN 0 ELSE 1 + BitLength(n \div 2)

\* getrandbits(k), k <= GeneratorBits: the top k bits of the next output
getrandbits(g, k) ==
    [value |-> NextState(g) \div Pow2(GeneratorBits - k), state |-> NextState(g)]

RECURSIVE randbelow(_, _)
\* Random._randbelow(n), n > 0: r = getrandbits(k); while r >= n: r = getrandbits(k)
randbelow(g, n) ==
    LET r == getrandbits(g, BitLength(n))
    IN IF r.value < n THEN r ELSE randbelow(r.state, n)

RECURSIVE PoolDraws(_, _, _, _, _)
\* the loop of Random.sample over a pool copy of the population:
\*   for i in range(k): j = randbelow(n - i); result[i] = pool[j];
\*                      pool[j] = pool[n - i - 1]
PoolDraws(g, pool, n, k, drawn) ==
    IF Len(drawn) = k THEN [value |-> drawn, state |-> g]
    ELSE LET i == Len(drawn)
             r == randbelow(g, n - i)
             j == r.value + 1
         IN PoolDraws(r.state, [pool EXCEPT ![j] = pool[n - i]], n, k,
                      Append(drawn, pool[j]))

\* random.sample(items, k) on the generator in state g, 0 <= k <= len(items)
random_sample_on(g, items, k) == PoolDraws(g, items, Len(items), k, <<>>)

RECURSIVE SampledRejectedOn(_, _, _, _, _)
\* the loop over by_reason.items() of sample(), the groups from keys[from] on,
\* on the generator in state g
SampledRejectedOn(g, ds, keys, from, per_reason) ==
    IF from > Len(keys) THEN [value |-> <<>>, state |-> g]
    ELSE LET items == GroupOf(ds, keys[from])
             head == IF KeptWhole(items, per_reason)
                     THEN [value |-> items, state |-> g]
                     ELSE random_sample_on(g, items, per_reason)
             rest == SampledRejectedOn(head.state, ds, keys, from + 1, per_reason)
         IN [value |-> head.value \o rest.value, state |-> rest.state]

\* DecisionSampler.sample on the generator in state g: the list and the flag
\* returned, and the state the generator is left in
sample_on(g, ds, threshold, per_reason) ==
    IF Len(ds) <= threshold
    THEN [list |-> ds, flag |-> FALSE, state |-> g]
    ELSE LET sr == SampledRejectedOn(g, ds, ReasonOrder(ds), 1, per_reason)
         IN [list |-> SortBySequence(AcceptedOf(ds) \o sr.value \o PendingOf(ds)),
             flag |-> TRUE, state |-> sr.state]

Min(a, b) == IF a <= b THEN a ELSE b

\* ---------------------------------------------------------------------------
\* src/api/db, src/api/routes/ingest.py: values
\* ---------------------------------------------------------------------------
\* an Optional value: <<>> is None, <<x>> is the value x
NoneOpt == <<>>
Some(x) == <<x>>
\* Python truthiness of an Optional list: neither None nor empty
Truthy(opt) == opt # NoneOpt /\ opt[1] # <<>>
\* len() of a truthy Optional list, 0 for a falsy one
LenOpt(opt) == IF Truthy(opt) THEN Len(opt[1]) ELSE 0

\* the store right after init_db(): four empty tables
EmptyDb == [runs |-> <<>>, steps |-> <<>>, decisions |-> <<>>, evidence |-> <<>>]

\* a session that has issued nothing
NoSession == [step |-> NoneOpt, decisions |-> <<>>, evidence |-> <<>>, ended |-> "unused"]

NoRequest == [op |-> "none", run_id |-> 0, decisions |-> NoneOpt, evidence |-> NoneOpt,
              status |-> None]
NoResponse == [status |-> 0, run_id |-> 0, step_id |-> 0, stats |-> NoneOpt,
               sampling_summary |-> NoneOpt, run_status |-> None]

\* the ids of the rows of a table (Run.id, Step.id: uuid4 strings, modelled by
\* the position of the row in its table)
RunIds(d) == 1..Len(d.runs)
NewRunId(d) == Len(d.runs) + 1
NewStepId(d) == Len(d.steps) + 1

\* select(func.count(Step.id)).where(Step.run_id == run_id)
CountSteps(d, run_id) ==
    Cardinality({i \in 1..Len(d.steps) : d.steps[i].run_id = run_id})

\* the normalisation loop: md = dict(d.metadata or {}); md.setdefault("sequence", idx)
Normalize(sdk_decisions) ==
    [i \in 1..Len(sdk_decisions) |->
        [sdk_decisions[i] EXCEPT !.metadata =
            IF sdk_decisions[i].metadata = <<>> THEN <<i - 1>>
            ELSE sdk_decisions[i].metadata]]

\* a variant of StatsInput that takes the stats of the sampled list
StatsInput_Sampled(normalized, sampled_sdk_decisions) == sampled_sdk_decisions

\* the argument of _sampler.compute_stats in record_step
StatsInput(normalized, sampled_sdk_decisions) == normalized

\* the Decision rows added to the session for decisions_to_store; a row has no
\* id until it is flushed (the column default _uuid runs at INSERT)
DecisionRows(step_id, decisions_to_store) ==
    [i \in 1..Len(decisions_to_store) |->
        [id |-> NoneOpt,
         step_id |-> step_id,
         candidate_id |-> decisions_to_store[i].candidate_id,
         decision_type |-> decisions_to_store[i].decision_type,
         reason |-> decisions_to_store[i].reason,
         sequence_order |-> i - 1,
         meta_data |-> decisions_to_store[i].metadata]]

\* for ev, decision in zip(step_input.evidence, created_decisions):
\*     db.add(Evidence(decision_id=decision.id, ...))
EvidenceRows(evidence, created_decisions) ==
    [i \in 1..Min(Len(evidence), Len(created_decisions)) |->
        [decision_id |-> created_decisions[i].id, data |-> evidence[i]]]

\* the flush of the Decision rows: each INSERT sets the id
FlushDecisions(rows) ==
    [i \in 1..Len(rows) |-> [rows[i] EXCEPT !.id = Some(<<rows[i].step_id, i>>)]]

\* a variant of StoreOnRaise in which the flushed step row stays in the store
StoreOnRaise_FlushCommits(d, sess) == [d EXCEPT !.steps = Append(@, sess.step[1])]

\* the committed store when the handler raises after db.add / db.flush and
\* get_db closes the session without a commit: the transaction is rolled back
StoreOnRaise(d, sess) == d

\* a variant of GuardrailExceeded that also rejects a submission at a limit
GuardrailExceeded_AtLimit(step_input) ==
    \/ Truthy(step_input.decisions) /\ Len(step_input.decisions[1]) >= MAX_DECISIONS_PER_STEP
    \/ Truthy(step_input.evidence) /\ Len(step_input.evidence[1]) >= MAX_EVIDENCE_PER_STEP

\* the guardrail of record_step: true when the submission is rejected with 413
GuardrailExceeded(step_input) ==
    \/ Truthy(step_input.decisions) /\ Len(step_input.decisions[1]) > MAX_DECISIONS_PER_STEP
    \/ Truthy(step_input.evidence) /\ Len(step_input.evidence[1]) > MAX_EVIDENCE_PER_STEP

\* a variant of EarlyError that looks the run up before the size checks
EarlyError_LookupFirst(step_input, run_exists) ==
    IF ~run_exists THEN 404
    ELSE IF GuardrailExceeded(step_input) THEN 413
    ELSE 0

\* the status of the first HTTPException of record_step, 0 when neither the
\* size checks nor the run lookup raises
EarlyError(step_input, run_exists) ==
    IF GuardrailExceeded(step_input) THEN 413
    ELSE IF ~run_exists THEN 404
    ELSE 0

\* a variant of SamplingSummary whose flag says whether decisions were dropped
SamplingSummary_SampledIsReduction(original_count, decisions_to_store, sampled_flag) ==
    [total |-> original_count,
     kept |-> Len(decisions_to_store),
     sampled |-> Len(decisions_to_store) < original_count]

\* SamplingSummary(total=original_count, kept=len(decisions_to_store),
\*                 sampled=was_sampled)
SamplingSummary(original_count, decisions_to_store, sampled_flag) ==
    [total |-> original_count,
     kept |-> Len(decisions_to_store),
     sampled |-> sampled_flag]

\* a variant of EvidencePresent that tests `is not None`
EvidencePresent_NotNone(step_input) == step_input.evidence # NoneOpt

\* `if step_input.evidence:`
EvidencePresent(step_input) == Truthy(step_input.evidence)

\* a variant of EvidenceTargets that counts the decisions submitted
EvidenceTargets_Submitted(sdk_decisions, created_decisions) ==
    IF Truthy(sdk_decisions) THEN sdk_decisions[1] ELSE <<>>

\* the list whose length bounds the evidence count and whose elements the
\* evidence is zipped with: created_decisions
EvidenceTargets(sdk_decisions, created_decisions) == created_decisions

\* `if not created_decisions:` / `if len(step_input.evidence) > len(created_decisions):`
EvidenceBindingError(step_input, targets) ==
    EvidencePresent(step_input)
    /\ (targets = <<>> \/ LenOpt(step_input.evidence) > Len(targets))

\* the calls record_step has made when it has added the Decision rows
CallsBeforeEvidence(sdk_decisions, created_decisions) ==
    <<"select_run", "count_steps">>
    \o (IF Truthy(sdk_decisions) THEN <<"compute_stats", "sample">> ELSE <<>>)
    \o <<"add_step", "flush">>
    \o [i \in 1..Len(created_decisions) |-> "add_decision"]

\* a variant of CompleteRunUpdate that stamps started_at as well
CompleteRunUpdate_RestampsStart(run, run_complete) ==
    [run EXCEPT !.output_result = run_complete.result,
                !.status = run_complete.status,
                !.started_at = Some("utcnow at completion"),
                !.completed_at = Some("utcnow at completion")]

\* run.output_result = ...; run.status = ...; run.completed_at = utcnow()
CompleteRunUpdate(run, run_complete) ==
    [run EXCEPT !.output_result = run_complete.result,
                !.status = run_complete.status,
                !.completed_at = Some("utcnow at completion")]

\* a variant of RunCompleteStatuses for `status: str`, which lets any string in
RunCompleteStatuses_AnyString == {"completed", "failed", "cancelled", "running"}

\* RunComplete.status: Literal["completed", "failed", "cancelled"]; a request
\* with another status is refused by the validation (422) before the handler
RunCompleteStatuses == {"completed", "failed", "cancelled"}

\* Evidence.decision_id is nullable=False: the INSERT of a row without
\* decision_id raises IntegrityError
IntegrityError(evidence_rows) ==
    \E i \in 1..Len(evidence_rows) : evidence_rows[i].decision_id = NoneOpt

\* the session of a request in flight: the step row its flush INSERTed in the
\* open transaction, and the Decision and Evidence rows added and not flushed
NoTransaction == [step |-> NoneOpt, decisions |-> <<>>, evidence |-> <<>>]

\* a worker without a request
NoWorker ==
    [pc |-> "idle", run_id |-> 0,
     step_input |-> [decisions |-> NoneOpt, evidence |-> NoneOpt],
     seq |-> 0, sampled |-> <<>>, transaction |-> NoTransaction, status |-> 0,
     created |-> <<>>]

\* no query in flight
NoReader ==
    [pc |-> "idle", op |-> "none", run_id |-> 0, step_id |-> 0,
     steps |-> <<>>, decisions |-> <<>>, status |-> 0]

RECURSIVE FlushedSteps(_, _)
\* the step rows INSERTed by the open transactions of the workers 1..n
FlushedSteps(ws, n) ==
    IF n = 0 THEN <<>>
    ELSE FlushedSteps(ws, n - 1) \o ws[n].transaction.step

\* a variant of Visible in which a query reads the rows of open transactions
Visible_ReadUncommitted(d, ws) ==
    [d EXCEPT !.steps = @ \o FlushedSteps(ws, Len(ws))]

\* what the session of another request reads: each request has a session and
\* a connection of its own, which sees what has been committed
Visible(d, ws) == d

RECURSIVE SortedByOrder(_)
\* sorted(rows, key=lambda s: s.sequence_order) / ORDER BY sequence_order
SortedByOrder(rows) ==
    IF rows = <<>> THEN <<>>
    ELSE LET n == Len(rows)
             front == SortedByOrder(SubSeq(rows, 1, n - 1))
             k == Cardinality({i \in 1..Len(front) :
                                 front[i].sequence_order <= rows[n].sequence_order})
         IN SubSeq(front, 1, k) \o <<rows[n]>> \o SubSeq(front, k + 1, Len(front))

\* select(Step) of the steps of a run (selectinload(Run.steps)), in table order
StepsWhereRun(rows, run_id) ==
    FilterSeq(rows, {i \in 1..Len(rows) : rows[i].run_id = run_id})

\* select(Step).where(and_(Step.id == step_id, Step.run_id == run_id))
StepsWhereId(rows, step_id, run_id) ==
    FilterSeq(rows, {i \in 1..Len(rows) :
                        rows[i].id = step_id /\ rows[i].run_id = run_id})

\* select(Decision).where(Decision.step_id.in_(step_ids))
DecisionsWhereStepIn(rows, steps) ==
    FilterSeq(rows, {i \in 1..Len(rows) :
                        \E k \in 1..Len(steps) : rows[i].step_id = steps[k].id})

\* the exceptions a call of the client can meet: a model that does not
\* validate (pydantic), a payload json.dumps cannot encode, a transport failure
\* or an error status (httpx), a body that is no JSON, a JSON body that is no
\* object
Exceptions ==
    {"ValidationError", "TypeError", "ConnectError", "TimeoutException",
     "HTTPStatusError", "JSONDecodeError", "AttributeError"}

\* a variant of Caught for `except httpx.HTTPError`
Caught_HttpxOnly(exc) == exc \in {"ConnectError", "TimeoutException", "HTTPStatusError"}

\* `except Exception as e:` every exception of Exceptions derives from Exception
Caught(exc) == exc \in Exceptions

\* what a call of the client meets: "ok" and "ok_without_run_id" are 2xx
\* responses with a JSON object, the others raise the exception named
Outcomes == {"ok", "ok_without_run_id"} \cup Exceptions

\* the exceptions raised before the request is sent
RaisedBeforeSend == {"ValidationError", "TypeError"}

\* `not run_id` is false for a run id that is neither None nor ""
TruthyRunId(run_id) == run_id # NoneOpt /\ run_id # Some("")

\* the XRay object of a pipeline that has made no call
NoCall == [op |-> "none", run_id |-> NoneOpt, outcome |-> "none", sent |-> FALSE,
           returned |-> NoneOpt, raised |-> FALSE]
NoClient == [enabled |-> FALSE, run_id |-> NoneOpt, sent |-> 0, calls |-> 0,
             last |-> NoCall]

\* ---------------------------------------------------------------------------
\* State
\* ---------------------------------------------------------------------------
VARIABLES
    \* -- SpecSampler: a DecisionSampler and one caller of its methods --------
    sampler,        \* the DecisionSampler: [threshold, per_reason]
    decisions,      \* the caller's decision list, the argument of both methods
    stats,          \* what compute_stats(decisions) returned before sample()
    result,         \* the list returned by sample(decisions)
    was_sampled,    \* the flag returned by sample(decisions)
    stats_after,    \* what compute_stats(decisions) returned after sample()
    result_again,       \* the list returned by sample(result)
    was_sampled_again,  \* the flag returned by sample(result)
    at,             \* the caller's position: "new", "stats", "sampled", "done", "again"
    \* -- Spec: the ingest API ------------------------------------------------
    db,             \* the committed store: the tables runs, steps, decisions, evidence
    payload,        \* Step.decisions of the step the instrumented pipeline submits
    request,        \* the request handled last
    session,        \* the AsyncSession of that request when its handler ended
    calls,          \* the calls the handler of that request made, in order
    response,       \* the response to that request
    \* -- SpecRandom: sample() invocations on the shared generator -------------
    seed,           \* random.seed(seed): the state the generator started in
    generator,      \* the state of the generator of the `random` module
    invocations,    \* per invocation: its argument, and what it returned
    \* -- SpecWorkers: record_step requests in flight together, and a query ---
    workers,        \* per worker: the position of its record_step and its locals
    reader,         \* the query in flight: its position and the rows it has read
    \* -- SpecClient: the XRay client of an instrumented pipeline -------------
    client          \* the XRay object, the requests it sent and its last call

sampler_vars ==
    <<sampler, decisions, stats, result, was_sampled, stats_after,
      result_again, was_sampled_again, at>>

api_vars == <<db, payload, request, session, calls, response>>

random_vars == <<seed, generator, invocations>>

worker_vars == <<workers, reader>>

client_vars == <<client>>

vars == <<sampler_vars, api_vars, random_vars, worker_vars, client_vars>>

\* no request is in flight at a worker, no query is in flight
IdleWorkers ==
    /\ workers = <<>>
    /\ reader = NoReader

\* no pipeline uses the SDK client
IdleClient == client = NoClient

\* no sample() invocation of SpecRandom exists in the other specifications
IdleRandom ==
    /\ seed = 0
    /\ generator = 0
    /\ invocations = <<>>

\* the ingest API is not used in SpecSampler
IdleApi ==
    /\ db = EmptyDb
    /\ payload = NoneOpt
    /\ request = NoRequest
    /\ session = NoSession
    /\ calls = <<>>
    /\ response = NoResponse

\* ---------------------------------------------------------------------------
\* SpecSampler
\* ---------------------------------------------------------------------------
\* DecisionSampler.__init__ and a decision list built by the caller
InitSampler ==
    /\ sampler \in [threshold : 0..MaxThreshold, per_reason : 0..MaxPerReason]
    /\ decisions \in ListsUpTo(DecisionShapes, MaxLen)
    /\ stats = compute_stats(<<>>)
    /\ result = <<>>
    /\ was_sampled = FALSE
    /\ stats_after = compute_stats(<<>>)
    /\ result_again = <<>>
    /\ was_sampled_again = FALSE
    /\ at = "new"
    /\ IdleApi
    /\ IdleRandom
    /\ IdleWorkers
    /\ IdleClient

\* stats = sampler.compute_stats(decisions)
CallComputeStats ==
    /\ at = "new"
    /\ stats' = compute_stats(decisions)
    /\ at' = "stats"
    /\ UNCHANGED <<sampler, decisions, result, was_sampled, stats_after>>
    /\ UNCHANGED <<result_again, was_sampled_again>>
    /\ UNCHANGED <<api_vars, random_vars, worker_vars, client_vars>>

\* result, was_sampled = sampler.sample(decisions); sample() only reads its
\* argument: the buckets, sampled_rejected and result are new lists, and
\* result.sort() sorts the new list
CallSample ==
    /\ at = "stats"
    /\ \E out \in sample(decisions, sampler.threshold, sampler.per_reason) :
         /\ result' = out[1]
         /\ was_sampled' = out[2]
    /\ decisions' = decisions
    /\ at' = "sampled"
    /\ UNCHANGED <<sampler, stats, stats_after, result_again, was_sampled_again>>
    /\ UNCHANGED <<api_vars, random_vars, worker_vars, client_vars>>

\* stats_after = sampler.compute_stats(decisions), on the same list object
CallComputeStatsAgain ==
    /\ at = "sampled"
    /\ stats_after' = compute_stats(decisions)
    /\ at' = "done"
    /\ UNCHANGED <<sampler, decisions, stats, result, was_sampled>>
    /\ UNCHANGED <<result_again, was_sampled_again>>
    /\ UNCHANGED <<api_vars, random_vars, worker_vars, client_vars>>

\* result_again, was_sampled_again = sampler.sample(result): the caller hands
\* the list it got from sample() to sample() once more
CallSampleAgain ==
    /\ at = "done"
    /\ \E out \in sample(result, sampler.threshold, sampler.per_reason) :
         /\ result_again' = out[1]
         /\ was_sampled_again' = out[2]
    /\ at' = "again"
    /\ UNCHANGED <<sampler, decisions, stats, result, was_sampled, stats_after>>
    /\ UNCHANGED <<api_vars, random_vars, worker_vars, client_vars>>

NextSampler ==
    CallComputeStats \/ CallSample \/ CallComputeStatsAgain \/ CallSampleAgain

SpecSampler == InitSampler /\ [][NextSampler]_vars

\* ---------------------------------------------------------------------------
\* SpecResample: the same caller, on lists whose rejected decisions of either
\* reason carry a sequence or none, and a per_reason of 1..MaxPerReason + 1
\* ---------------------------------------------------------------------------
ResampleShapes ==
    {[decision_type |-> "accepted", reason |-> None, metadata |-> <<>>],
     [decision_type |-> "pending", reason |-> None, metadata |-> <<>>]}
    \cup {[decision_type |-> "rejected", reason |-> r, metadata |-> m] :
            r \in {None, "price"}, m \in Metadatas}

InitResample ==
    /\ sampler \in [threshold : 0..MaxThreshold, per_reason : 1..(MaxPerReason + 1)]
    /\ decisions \in ListsUpTo(ResampleShapes, MaxLen)
    /\ stats = compute_stats(<<>>)
    /\ result = <<>>
    /\ was_sampled = FALSE
    /\ stats_after = compute_stats(<<>>)
    /\ result_again = <<>>
    /\ was_sampled_again = FALSE
    /\ at = "new"
    /\ IdleApi
    /\ IdleRandom
    /\ IdleWorkers
    /\ IdleClient

SpecResample == InitResample /\ [][NextSampler]_vars

\* ---------------------------------------------------------------------------
\* Spec: the ingest API (src/api/routes/ingest.py), one request at a time
\* ---------------------------------------------------------------------------
\* the decisions a pipeline step submits in the enumerated workloads
ApiShapes ==
    {[decision_type |-> "accepted", reason |-> None, metadata |-> <<>>],
     [decision_type |-> "accepted", reason |-> None, metadata |-> <<2>>],
     [decision_type |-> "rejected", reason |-> "price", metadata |-> <<>>]}

\* Step.decisions is None or a list; the guardrail reads the length only, so
\* one list over the limit is enough
ApiPayloads ==
    {NoneOpt}
    \cup {Some(l) : l \in ListsUpTo(ApiShapes, MAX_DECISIONS_PER_STEP)}
    \cup {Some(l) : l \in ListsOfLen(
                {[decision_type |-> "accepted", reason |-> None, metadata |-> <<>>]},
                MAX_DECISIONS_PER_STEP + 1)}

\* an evidence item is modelled by its payload, the number i
EvidenceInputs ==
    {NoneOpt} \cup {Some([i \in 1..m |-> i]) : m \in 0..(MAX_EVIDENCE_PER_STEP + 1)}

\* RunComplete as enumerated: a result and one of the three status literals
RunCompleteInputs ==
    [result : {Some("winner")}, status : {"completed"}]

\* the module-level _sampler = DecisionSampler() and an empty store
Init ==
    /\ sampler = [threshold |-> ThresholdDefault, per_reason |-> PerReasonDefault]
    /\ decisions = <<>>
    /\ stats = compute_stats(<<>>)
    /\ result = <<>>
    /\ was_sampled = FALSE
    /\ stats_after = compute_stats(<<>>)
    /\ result_again = <<>>
    /\ was_sampled_again = FALSE
    /\ at = "unused"
    /\ db = EmptyDb
    /\ payload \in ApiPayloads
    /\ request = NoRequest
    /\ session = NoSession
    /\ calls = <<>>
    /\ response = NoResponse
    /\ IdleRandom
    /\ IdleWorkers
    /\ IdleClient

\* no request is being handled: the next one can be taken
Idle == request.op = "none"

\* POST /v1/runs
create_run ==
    /\ Idle
    /\ Len(db.runs) < MaxRuns
    /\ request' = [NoRequest EXCEPT !.op = "create_run"]
    /\ db' = [db EXCEPT !.runs = Append(@,
                 [id |-> NewRunId(db), status |-> "running",
                  started_at |-> Some("utcnow"),
                  output_result |-> NoneOpt, completed_at |-> NoneOpt])]
    /\ session' = [NoSession EXCEPT !.ended = "committed"]
    /\ calls' = <<"add_run", "commit", "refresh">>
    /\ response' = [NoResponse EXCEPT !.status = 201, !.run_id = NewRunId(db)]
    /\ UNCHANGED <<payload, sampler_vars, random_vars, worker_vars, client_vars>>

\* what _sampler.sample(normalized) can return in record_step, <<[], False>>
\* when no decisions were submitted
SampleCall(step_input) ==
    IF Truthy(step_input.decisions)
    THEN sample(Normalize(step_input.decisions[1]), sampler.threshold, sampler.per_reason)
    ELSE {<<<<>>, FALSE>>}

\* POST /v1/runs/{run_id}/steps.  result and was_sampled hold what
\* _sampler.sample returned to the handler (its locals sampled_sdk_decisions
\* and was_sampled) until the request is over.
record_step(run_id, step_input) ==
    /\ Idle
    /\ Len(db.steps) < MaxSteps
    /\ request' = [NoRequest EXCEPT !.op = "record_step", !.run_id = run_id,
                       !.decisions = step_input.decisions,
                       !.evidence = step_input.evidence]
    /\ UNCHANGED <<payload, sampler, decisions, stats, stats_after,
                   result_again, was_sampled_again, at, random_vars, worker_vars, client_vars>>
    /\ IF EarlyError(step_input, run_id \in RunIds(db)) = 413
       THEN /\ response' = [NoResponse EXCEPT !.status = 413]
            /\ session' = [NoSession EXCEPT !.ended = "closed"]
            /\ calls' = <<>>
            /\ result' = <<>>
            /\ was_sampled' = FALSE
            /\ db' = db
       ELSE IF EarlyError(step_input, run_id \in RunIds(db)) = 404
       THEN /\ response' = [NoResponse EXCEPT !.status = 404]
            /\ session' = [NoSession EXCEPT !.ended = "closed"]
            /\ calls' = <<"select_run">>
            /\ result' = <<>>
            /\ was_sampled' = FALSE
            /\ db' = db
       ELSE \E out \in SampleCall(step_input) :
            LET seq == CountSteps(db, run_id)
                sdk_decisions == step_input.decisions
                sampled_sdk_decisions == out[1]
                sampled_flag == out[2]
                normalized == IF Truthy(sdk_decisions)
                              THEN Normalize(sdk_decisions[1]) ELSE <<>>
                step_stats == IF Truthy(sdk_decisions)
                              THEN Some(compute_stats(
                                      StatsInput(normalized, sampled_sdk_decisions)))
                              ELSE NoneOpt
                \* db.add(step); await db.flush(): the step has its id
                step == [id |-> NewStepId(db), run_id |-> run_id,
                         sequence_order |-> seq, stats |-> step_stats]
                decisions_to_store == sampled_sdk_decisions
                sampling_summary ==
                    IF Truthy(sdk_decisions)
                    THEN Some(SamplingSummary(Len(sdk_decisions[1]),
                                              decisions_to_store, sampled_flag))
                    ELSE NoneOpt
                created_decisions == DecisionRows(step.id, decisions_to_store)
                targets == EvidenceTargets(sdk_decisions, created_decisions)
                evidence_rows ==
                    IF EvidencePresent(step_input)
                    THEN EvidenceRows(step_input.evidence[1], created_decisions)
                    ELSE <<>>
                before_evidence == [step |-> Some(step), decisions |-> created_decisions,
                                    evidence |-> <<>>, ended |-> "rolled_back"]
                calls_before == CallsBeforeEvidence(sdk_decisions, created_decisions)
                calls_commit == calls_before
                                  \o [i \in 1..Len(evidence_rows) |-> "add_evidence"]
                                  \o <<"commit">>
            IN /\ result' = sampled_sdk_decisions
               /\ was_sampled' = sampled_flag
               /\ IF EvidenceBindingError(step_input, targets)
                  THEN /\ response' = [NoResponse EXCEPT !.status = 400]
                       /\ session' = before_evidence
                       /\ calls' = calls_before
                       /\ db' = StoreOnRaise(db, before_evidence)
                  ELSE IF IntegrityError(evidence_rows)
                  THEN \* await db.commit() raises; get_db closes the session
                       /\ response' = [NoResponse EXCEPT !.status = 500]
                       /\ session' = [before_evidence EXCEPT !.evidence = evidence_rows]
                       /\ calls' = calls_commit
                       /\ db' = StoreOnRaise(db, before_evidence)
                  ELSE /\ response' = [NoResponse EXCEPT !.status = 201,
                                           !.step_id = step.id,
                                           !.stats = step_stats,
                                           !.sampling_summary = sampling_summary]
                       /\ session' = [step |-> Some(step),
                                      decisions |-> FlushDecisions(created_decisions),
                                      evidence |-> evidence_rows,
                                      ended |-> "committed"]
                       /\ calls' = calls_commit \o <<"refresh">>
                       /\ db' = [db EXCEPT
                                   !.steps = Append(@, step),
                                   !.decisions = @ \o FlushDecisions(created_decisions),
                                   !.evidence = @ \o evidence_rows]

\* PATCH /v1/runs/{run_id}
complete_run(run_id, run_complete) ==
    /\ Idle
    /\ request' = [NoRequest EXCEPT !.op = "complete_run", !.run_id = run_id,
                       !.status = run_complete.status]
    /\ UNCHANGED <<payload, sampler_vars, random_vars, worker_vars, client_vars>>
    /\ IF run_id \notin RunIds(db)
       THEN /\ response' = [NoResponse EXCEPT !.status = 404]
            /\ session' = [NoSession EXCEPT !.ended = "closed"]
            /\ calls' = <<"select_run">>
            /\ db' = db
       ELSE /\ calls' = <<"select_run", "commit">>
            /\ db' = [db EXCEPT !.runs[run_id] = CompleteRunUpdate(@, run_complete)]
            /\ session' = [NoSession EXCEPT !.ended = "committed"]
            /\ response' = [NoResponse EXCEPT !.status = 200, !.run_id = run_id,
                                !.run_status = run_complete.status]

\* get_db after the handler returned or raised: `finally: await session.close()`
\* discards whatever the session did not commit; the response has been sent
get_db_close ==
    /\ ~Idle
    /\ session' = NoSession
    /\ calls' = <<>>
    /\ request' = NoRequest
    /\ response' = NoResponse
    /\ result' = <<>>
    /\ was_sampled' = FALSE
    /\ UNCHANGED <<db, payload, sampler, decisions, stats, stats_after,
                   result_again, was_sampled_again, at, random_vars, worker_vars, client_vars>>

\* GET /v1/runs/{run_id}: two SELECTs, no write
get_run(run_id) ==
    /\ Idle
    /\ request' = [NoRequest EXCEPT !.op = "get_run", !.run_id = run_id]
    /\ session' = [NoSession EXCEPT !.ended = "closed"]
    /\ IF run_id \notin RunIds(db)
       THEN /\ response' = [NoResponse EXCEPT !.status = 404]
            /\ calls' = <<"select_run">>
       ELSE /\ response' = [NoResponse EXCEPT !.status = 200, !.run_id = run_id,
                                !.run_status = db.runs[run_id].status]
            /\ calls' = <<"select_run", "select_decisions">>
    /\ UNCHANGED <<db, payload, sampler_vars, random_vars, worker_vars, client_vars>>

\* a client names a run that exists or one that does not
RequestRunIds == 1..(Len(db.runs) + 1)

Next ==
    \/ create_run
    \/ \E run_id \in RequestRunIds, ev \in EvidenceInputs :
          record_step(run_id, [decisions |-> payload, evidence |-> ev])
    \/ \E run_id \in RequestRunIds, run_complete \in RunCompleteInputs :
          complete_run(run_id, run_complete)
    \/ get_db_close

Spec == Init /\ [][Next]_vars

\* ---------------------------------------------------------------------------
\* SpecRun: the life of the runs and of their stored steps under every
\* operation of the ingest router and get_run of the query router
\* ---------------------------------------------------------------------------
\* a step without decisions, or one with a rejected and an accepted decision
RunPayloads ==
    {NoneOpt,
     Some(<<MkDecision(1, [decision_type |-> "rejected", reason |-> "price",
                           metadata |-> <<>>]),
            MkDecision(2, [decision_type |-> "accepted", reason |-> None,
                           metadata |-> <<>>])>>)}

InitRun == Init /\ payload \in RunPayloads

\* every RunComplete the validation lets through, with and without a result
NextRun ==
    \/ create_run
    \/ \E run_id \in RequestRunIds :
          record_step(run_id, [decisions |-> payload, evidence |-> NoneOpt])
    \/ \E run_id \in RequestRunIds,
          run_complete \in [result : {NoneOpt, Some("winner")},
                            status : RunCompleteStatuses] :
          complete_run(run_id, run_complete)
    \/ \E run_id \in RequestRunIds : get_run(run_id)
    \/ get_db_close

SpecRun == InitRun /\ [][NextRun]_vars

\* ---------------------------------------------------------------------------
\* SpecRandom: sample() invocations of the module-level _sampler on the one
\* generator of the `random` module
\* ---------------------------------------------------------------------------
\* record_step is a coroutine and _sampler.sample(normalized) has no await in
\* it: the invocations made by requests that are in flight together run one
\* after the other on the event loop, in any order, each on the generator
\* state the ones before it left.
\* before and after: the state of the generator when sample() was entered
\* and when it returned
NoInvocation == [input |-> <<>>, done |-> FALSE, output |-> <<>>, flag |-> FALSE,
                 before |-> 0, after |-> 0]

\* the normalised decision lists given to the invocations: a list within the
\* threshold and lists one decision over it, which are a list that needs no
\* draw (a group exactly at per_reason and a group of one) and lists rejected
\* for one reason, all of them or all but the first
RandomInputs ==
    {Normalize(<<MkDecision(1, [decision_type |-> "rejected", reason |-> "price",
                                metadata |-> <<>>])>>)}
    \cup
    {Normalize([i \in 1..(ThresholdDefault + 1) |->
        MkDecision(i, [decision_type |-> IF i <= PerReasonDefault + 1
                                         THEN "rejected" ELSE "accepted",
                       reason |-> IF i <= PerReasonDefault THEN "price" ELSE None,
                       metadata |-> <<>>])])}
    \cup
    {Normalize([i \in 1..(ThresholdDefault + 1) |->
        MkDecision(i, [decision_type |-> IF i <= a THEN "accepted" ELSE "rejected",
                       reason |-> IF i <= a THEN None ELSE "price",
                       metadata |-> <<>>])]) : a \in 0..1}
    \cup {Normalize([i \in 1..(ThresholdDefault + 1) |->
        MkDecision(i, [decision_type |-> "rejected",
                       reason |-> IF i = 1 THEN "" ELSE "price",
                       metadata |-> <<>>])])}

InitRandom ==
    /\ sampler = [threshold |-> ThresholdDefault, per_reason |-> PerReasonDefault]
    /\ decisions = <<>>
    /\ stats = compute_stats(<<>>)
    /\ result = <<>>
    /\ was_sampled = FALSE
    /\ stats_after = compute_stats(<<>>)
    /\ result_again = <<>>
    /\ was_sampled_again = FALSE
    /\ at = "unused"
    /\ IdleApi
    /\ IdleWorkers
    /\ IdleClient
    /\ seed \in GeneratorStates
    /\ generator = seed
    /\ invocations \in [1..MaxInvocations -> {[NoInvocation EXCEPT !.input = l] :
                                                l \in RandomInputs}]

\* sampled_sdk_decisions, was_sampled = _sampler.sample(normalized) of request i
SampleInvocation(i) ==
    /\ ~invocations[i].done
    /\ LET r == sample_on(generator, invocations[i].input,
                          sampler.threshold, sampler.per_reason)
       IN /\ invocations' = [invocations EXCEPT
                                ![i] = [@ EXCEPT !.done = TRUE, !.output = r.list,
                                                 !.flag = r.flag,
                                                 !.before = generator,
                                                 !.after = r.state]]
          /\ generator' = r.state
    /\ UNCHANGED <<seed, sampler_vars, api_vars, worker_vars, client_vars>>

NextRandom == \E i \in 1..MaxInvocations : SampleInvocation(i)

SpecRandom == InitRandom /\ [][NextRandom]_vars

\* ---------------------------------------------------------------------------
\* SpecWorkers: record_step requests handled by workers at the same time, and
\* a query that reads while they run.  The handlers are coroutines: a worker
\* gives way at each await, and the code between two awaits runs in one piece.
\* ---------------------------------------------------------------------------
\* the submissions of the workers: the step of the pipeline, with or without
\* one evidence item
WorkerInputs ==
    [decisions : {payload}, evidence : {NoneOpt, Some(<<1>>)}]

\* runs that create_run has committed, no request in flight
WorkerRuns ==
    [r \in 1..MaxRuns |->
        [id |-> r, status |-> "running", output_result |-> NoneOpt,
         started_at |-> Some("utcnow"), completed_at |-> NoneOpt]]

InitWorkers ==
    /\ sampler = [threshold |-> ThresholdDefault, per_reason |-> PerReasonDefault]
    /\ decisions = <<>>
    /\ stats = compute_stats(<<>>)
    /\ result = <<>>
    /\ was_sampled = FALSE
    /\ stats_after = compute_stats(<<>>)
    /\ result_again = <<>>
    /\ was_sampled_again = FALSE
    /\ at = "unused"
    /\ db = [EmptyDb EXCEPT !.runs = WorkerRuns]
    /\ payload \in RunPayloads
    /\ request = NoRequest
    /\ session = NoSession
    /\ calls = <<>>
    /\ response = NoResponse
    /\ IdleRandom
    /\ workers = [w \in 1..MaxWorkers |-> NoWorker]
    /\ reader = NoReader
    /\ IdleClient

\* the worker's request is over: get_db has closed its session, and what the
\* session did not commit is gone
Finished(status, created) ==
    [NoWorker EXCEPT !.pc = "done", !.status = status, !.created = created]

\* a request reaches worker w; the two size checks run before the first await
record_step_receive(w, run_id, step_input) ==
    /\ workers[w].pc = "idle"
    /\ workers' = [workers EXCEPT ![w] =
                     IF GuardrailExceeded(step_input) THEN Finished(413, <<>>)
                     ELSE [NoWorker EXCEPT !.pc = "select_run", !.run_id = run_id,
                                           !.step_input = step_input]]
    /\ UNCHANGED <<reader, sampler_vars, api_vars, random_vars, client_vars>>

\* await db.execute(select(Run).where(Run.id == run_id))
record_step_select_run(w) ==
    /\ workers[w].pc = "select_run"
    /\ workers' = [workers EXCEPT ![w] =
                     IF workers[w].run_id \in RunIds(Visible(db, workers))
                     THEN [@ EXCEPT !.pc = "count_steps"]
                     ELSE Finished(404, <<>>)]
    /\ UNCHANGED <<reader, sampler_vars, api_vars, random_vars, client_vars>>

\* seq = (await db.execute(select(func.count(Step.id)) ...)).scalar() or 0
record_step_count_steps(w) ==
    /\ workers[w].pc = "count_steps"
    /\ workers' = [workers EXCEPT ![w] =
                     [@ EXCEPT !.pc = "flush",
                               !.seq = CountSteps(Visible(db, workers), workers[w].run_id)]]
    /\ UNCHANGED <<reader, sampler_vars, api_vars, random_vars, client_vars>>

\* compute_stats, sample, db.add(step), await db.flush(): the step row is
\* INSERTed in the transaction of the worker's session; its id (a uuid4) is
\* modelled by the number of the worker
record_step_flush(w) ==
    /\ workers[w].pc = "flush"
    /\ \E out \in SampleCall(workers[w].step_input) :
          LET sdk_decisions == workers[w].step_input.decisions
              normalized == IF Truthy(sdk_decisions)
                            THEN Normalize(sdk_decisions[1]) ELSE <<>>
              step_stats == IF Truthy(sdk_decisions)
                            THEN Some(compute_stats(StatsInput(normalized, out[1])))
                            ELSE NoneOpt
              step == [id |-> w, run_id |-> workers[w].run_id,
                       sequence_order |-> workers[w].seq, stats |-> step_stats]
          IN workers' = [workers EXCEPT ![w] =
                           [@ EXCEPT !.pc = "add",
                                     !.transaction.step = Some(step),
                                     !.sampled = out[1]]]
    /\ UNCHANGED <<reader, sampler_vars, api_vars, random_vars, client_vars>>

\* the code from the return of the flush to await db.commit(): the Decision
\* rows are added, the evidence is checked and added
record_step_add(w) ==
    /\ workers[w].pc = "add"
    /\ LET step_input == workers[w].step_input
           created_decisions ==
               DecisionRows(workers[w].transaction.step[1].id, workers[w].sampled)
           targets == EvidenceTargets(step_input.decisions, created_decisions)
       IN workers' = [workers EXCEPT ![w] =
                        IF EvidenceBindingError(step_input, targets)
                        THEN Finished(400, <<>>)
                        ELSE [@ EXCEPT !.pc = "commit",
                                       !.transaction.decisions = created_decisions,
                                       !.transaction.evidence =
                                           IF EvidencePresent(step_input)
                                           THEN EvidenceRows(step_input.evidence[1],
                                                             created_decisions)
                                           ELSE <<>>]]
    /\ UNCHANGED <<reader, sampler_vars, api_vars, random_vars, client_vars>>

\* await db.commit(); await db.refresh(step); return: the pending rows are
\* flushed and the transaction is committed, or the INSERT of an evidence row
\* fails and the transaction is rolled back
record_step_commit(w) ==
    /\ workers[w].pc = "commit"
    /\ LET t == workers[w].transaction
       IN IF IntegrityError(t.evidence)
          THEN /\ workers' = [workers EXCEPT ![w] = Finished(500, <<>>)]
               /\ db' = StoreOnRaise(db, t)
          ELSE /\ workers' = [workers EXCEPT ![w] =
                                 Finished(201, FlushDecisions(t.decisions))]
               /\ db' = [db EXCEPT !.steps = Append(@, t.step[1]),
                                   !.decisions = @ \o FlushDecisions(t.decisions),
                                   !.evidence = @ \o t.evidence]
    /\ UNCHANGED <<payload, request, session, calls, response>>
    /\ UNCHANGED <<reader, sampler_vars, random_vars, client_vars>>

\* the request is cancelled at an await (the client went away, a timeout of
\* the server): CancelledError unwinds the handler and get_db closes the
\* session; nothing was committed
record_step_abort(w) ==
    /\ workers[w].pc \in {"select_run", "count_steps", "flush", "add", "commit"}
    /\ workers' = [workers EXCEPT ![w] = Finished(499, <<>>)]
    /\ UNCHANGED <<reader, sampler_vars, api_vars, random_vars, client_vars>>

\* get_run and visualize_run: select(Run).options(selectinload(Run.steps)) and
\* sorted(run.steps); get_step_decisions: select(Step) by id and run
query_select_steps(op, run_id, step_id) ==
    /\ reader.pc = "idle"
    /\ LET seen == Visible(db, workers)
           rows == IF op = "get_step_decisions"
                   THEN StepsWhereId(seen.steps, step_id, run_id)
                   ELSE SortedByOrder(StepsWhereRun(seen.steps, run_id))
           found == IF op = "get_step_decisions" THEN rows # <<>>
                    ELSE run_id \in RunIds(seen)
       IN reader' = IF ~found
                    THEN [NoReader EXCEPT !.pc = "observed", !.op = op, !.status = 404]
                    ELSE [NoReader EXCEPT
                            !.pc = IF rows = <<>> THEN "observed" ELSE "select_decisions",
                            !.op = op, !.run_id = run_id, !.steps = rows,
                            !.status = IF rows = <<>> THEN 200 ELSE 0]
    /\ UNCHANGED <<workers, sampler_vars, api_vars, random_vars, client_vars>>

\* select(Decision).where(Decision.step_id.in_(step_ids))
\*                 .order_by(Decision.sequence_order)
query_select_decisions ==
    /\ reader.pc = "select_decisions"
    /\ LET seen == Visible(db, workers)
       IN reader' = [reader EXCEPT
                       !.pc = "observed", !.status = 200,
                       !.decisions = SortedByOrder(
                                        DecisionsWhereStepIn(seen.decisions, reader.steps))]
    /\ UNCHANGED <<workers, sampler_vars, api_vars, random_vars, client_vars>>

\* the response of the query has been sent
query_return ==
    /\ reader.pc = "observed"
    /\ reader' = NoReader
    /\ UNCHANGED <<workers, sampler_vars, api_vars, random_vars, client_vars>>

NextWorkers ==
    \/ \E w \in 1..MaxWorkers, run_id \in RequestRunIds, step_input \in WorkerInputs :
          record_step_receive(w, run_id, step_input)
    \/ \E w \in 1..MaxWorkers : record_step_select_run(w)
    \/ \E w \in 1..MaxWorkers : record_step_count_steps(w)
    \/ \E w \in 1..MaxWorkers : record_step_flush(w)
    \/ \E w \in 1..MaxWorkers : record_step_add(w)
    \/ \E w \in 1..MaxWorkers : record_step_commit(w)
    \/ \E w \in 1..MaxWorkers : record_step_abort(w)
    \/ \E op \in {"get_run", "get_step_decisions"}, run_id \in RequestRunIds,
          step_id \in 1..MaxWorkers : query_select_steps(op, run_id, step_id)
    \/ query_select_decisions
    \/ query_return

SpecWorkers == InitWorkers /\ [][NextWorkers]_vars

\* ---------------------------------------------------------------------------
\* SpecClient: the XRay client (src/xray/client.py) in an instrumented pipeline
\* ---------------------------------------------------------------------------
\* the run ids a pipeline passes: what start_run returned, or any of these
ClientRunIds == {NoneOpt, Some(""), Some("run-1")}

\* what can come of the body of each method: every method sends a payload
\* that json.dumps may refuse (a datetime of the step, a value of a dict);
\* start_run and complete_run build a model first; only start_run reads
\* run_id off the JSON object
OutcomesOf(op) ==
    Outcomes \ (CASE op = "start_run" -> {}
                  [] op = "record_step" ->
                        {"ValidationError", "AttributeError", "ok_without_run_id"}
                  [] op = "complete_run" -> {"AttributeError", "ok_without_run_id"})

\* XRay(enabled=...), no call made
InitClient ==
    /\ sampler = [threshold |-> ThresholdDefault, per_reason |-> PerReasonDefault]
    /\ decisions = <<>>
    /\ stats = compute_stats(<<>>)
    /\ result = <<>>
    /\ was_sampled = FALSE
    /\ stats_after = compute_stats(<<>>)
    /\ result_again = <<>>
    /\ was_sampled_again = FALSE
    /\ at = "unused"
    /\ IdleApi
    /\ IdleRandom
    /\ IdleWorkers
    /\ client \in {[NoClient EXCEPT !.enabled = e] : e \in BOOLEAN}

\* the early `return None` of a method: nothing is sent
ReturnedEarly(op, run_id) ==
    [NoCall EXCEPT !.op = op, !.run_id = run_id]

\* the try block of a method: the request is sent unless building it raised;
\* an exception that the except clause catches is logged and None is returned,
\* any other leaves the method
TryBlock(op, run_id, outcome, body) ==
    [op |-> op, run_id |-> run_id, outcome |-> outcome,
     sent |-> outcome \notin RaisedBeforeSend,
     returned |-> IF outcome \in Exceptions THEN NoneOpt ELSE body,
     raised |-> outcome \in Exceptions /\ ~Caught(outcome)]

\* the pipeline goes on to its next call unless a call raised into it
Calling == client.calls < MaxCalls /\ ~client.last.raised

AfterCall(call) ==
    [client EXCEPT !.calls = @ + 1,
                   !.sent = IF call.sent THEN @ + 1 ELSE @,
                   !.last = call]

\* XRay.start_run
XRay_start_run(outcome) ==
    /\ Calling
    /\ LET call == IF ~client.enabled THEN ReturnedEarly("start_run", NoneOpt)
                   ELSE TryBlock("start_run", NoneOpt, outcome,
                                 IF outcome = "ok" THEN Some("run-1") ELSE NoneOpt)
       IN client' = [AfterCall(call) EXCEPT !.run_id = call.returned]
    /\ UNCHANGED <<sampler_vars, api_vars, random_vars, worker_vars>>

\* XRay.record_step
XRay_record_step(run_id, outcome) ==
    /\ Calling
    /\ client' = AfterCall(IF ~client.enabled \/ ~TruthyRunId(run_id)
                           THEN ReturnedEarly("record_step", run_id)
                           ELSE TryBlock("record_step", run_id, outcome, Some("body")))
    /\ UNCHANGED <<sampler_vars, api_vars, random_vars, worker_vars>>

\* XRay.complete_run
XRay_complete_run(run_id, outcome) ==
    /\ Calling
    /\ client' = AfterCall(IF ~client.enabled \/ ~TruthyRunId(run_id)
                           THEN ReturnedEarly("complete_run", run_id)
                           ELSE TryBlock("complete_run", run_id, outcome, Some("body")))
    /\ UNCHANGED <<sampler_vars, api_vars, random_vars, worker_vars>>

NextClient ==
    \/ \E outcome \in OutcomesOf("start_run") : XRay_start_run(outcome)
    \/ \E run_id \in ClientRunIds, outcome \in OutcomesOf("record_step") :
          XRay_record_step(run_id, outcome)
    \/ \E run_id \in ClientRunIds, outcome \in OutcomesOf("complete_run") :
          XRay_complete_run(run_id, outcome)

SpecClient == InitClient /\ [][NextClient]_vars

\* ---------------------------------------------------------------------------
\* Properties of DecisionSampler (SpecSampler)
\* ---------------------------------------------------------------------------
Occurrences(s, x) == Cardinality({i \in 1..Len(s) : s[i] = x})
NumOfType(s, t) == Cardinality({i \in 1..Len(s) : s[i].decision_type = t})
\* a reason that is None or empty is a missing reason
ReasonMissing(d) == d.reason \in {None, ""}
\* the rejected decisions of s counted under bucket k
NumRejectedUnder(s, k) ==
    Cardinality({i \in 1..Len(s) :
        /\ s[i].decision_type = "rejected"
        /\ IF ReasonMissing(s[i]) THEN k = "unknown" ELSE k = s[i].reason})
Buckets(s) == {k \in (Reasons \cup {"unknown"}) : NumRejectedUnder(s, k) > 0}
RECURSIVE SumOver(_, _)
SumOver(f, S) ==
    IF S = {} THEN 0
    ELSE LET k == CHOOSE x \in S : TRUE IN f[k] + SumOver(f, S \ {k})
StatsReturned == at \in {"stats", "sampled", "done", "again"}
SampleReturned == at \in {"sampled", "done", "again"}

\* C3: for every decision list, the empty one included, compute_stats returns
\* input_count = the length, output_count = the number accepted,
\* rejection_rate = rejected / input_count exactly (0.0 for the empty list) and
\* rejection_reasons = the reason -> count map of the rejected decisions only,
\* a missing reason counted under "unknown".
C3_ComputeStatsValues ==
    StatsReturned =>
        /\ stats.input_count = Len(decisions)
        /\ stats.output_count = NumOfType(decisions, "accepted")
        /\ IF Len(decisions) = 0
           THEN stats.rejection_rate = Zero
           ELSE /\ stats.rejection_rate[2] > 0
                /\ stats.rejection_rate[1] * Len(decisions)
                     = NumOfType(decisions, "rejected") * stats.rejection_rate[2]
        /\ DOMAIN stats.rejection_reasons = Buckets(decisions)
        /\ \A k \in Buckets(decisions) :
             stats.rejection_reasons[k] = NumRejectedUnder(decisions, k)

\* a list with an accepted decision, a rejected one without reason and a
\* rejected one with a reason has been given to compute_stats
C3_Witness ==
    /\ at = "stats"
    /\ NumOfType(decisions, "accepted") = 1
    /\ \E i, j \in 1..Len(decisions) :
         /\ decisions[i].decision_type = "rejected" /\ decisions[i].reason = None
         /\ decisions[j].decision_type = "rejected" /\ decisions[j].reason = "price"
    /\ stats.rejection_reasons = [k \in {"unknown", "price"} |-> 1]

\* C4: output_count + rejected + pending = input_count, the number rejected
\* being the sum of the values of rejection_reasons; and compute_stats of the
\* list is the same before and after sample() was applied to the list.
C4_StatsTotals ==
    /\ StatsReturned =>
         /\ SumOver(stats.rejection_reasons, DOMAIN stats.rejection_reasons)
              = NumOfType(decisions, "rejected")
         /\ stats.output_count
              + SumOver(stats.rejection_reasons, DOMAIN stats.rejection_reasons)
              + NumOfType(decisions, "pending")
              = stats.input_count
    /\ at = "done" => stats_after = stats

\* compute_stats ran before and after a sample() that dropped decisions of a
\* list holding all three decision types
C4_Witness ==
    /\ at = "done"
    /\ was_sampled
    /\ Len(result) < Len(decisions)
    /\ \A t \in DecisionTypes : NumOfType(decisions, t) > 0

\* C6: a list no longer than threshold is returned as it is, same elements in
\* the same order, with was_sampled = false.
C6_UnderThresholdUnchanged ==
    (SampleReturned /\ Len(decisions) <= sampler.threshold) =>
        (result = decisions /\ was_sampled = FALSE)

\* a list exactly at the threshold, not in ascending sequence order, went
\* through sample()
C6_Witness ==
    /\ at = "sampled"
    /\ Len(decisions) = sampler.threshold
    /\ Len(decisions) >= 2
    /\ decisions[1].metadata = <<1>> /\ decisions[2].metadata = <<>>
    /\ result = decisions

\* C7: every accepted and every pending decision of the input is in the output
\* of sample() as many times as in the input.
C7_AcceptedPendingKept ==
    SampleReturned =>
        \A i \in 1..Len(decisions) :
            decisions[i].decision_type \in {"accepted", "pending"} =>
                Occurrences(result, decisions[i]) = Occurrences(decisions, decisions[i])

\* sample() dropped a rejected decision of a list that also holds an accepted
\* and a pending decision
C7_Witness ==
    /\ at = "sampled"
    /\ was_sampled
    /\ Len(result) < Len(decisions)
    /\ NumOfType(decisions, "accepted") > 0
    /\ NumOfType(decisions, "pending") > 0

\* C8: when sample() samples, the output holds exactly min(c, per_reason)
\* rejected decisions of every reason with c rejected decisions in the input
\* (missing reason = "unknown"), so its size is accepted + pending + the sum
\* of min(c, per_reason).
C8_PerReasonCap ==
    (SampleReturned /\ Len(decisions) > sampler.threshold) =>
        /\ was_sampled
        /\ \A k \in Reasons \cup {"unknown"} :
             NumRejectedUnder(result, k)
               = Min(NumRejectedUnder(decisions, k), sampler.per_reason)
        /\ Len(result)
             = NumOfType(decisions, "accepted") + NumOfType(decisions, "pending")
               + SumOver([k \in Buckets(decisions) |->
                            Min(NumRejectedUnder(decisions, k), sampler.per_reason)],
                         Buckets(decisions))

\* two reason groups, one over the cap (cut to per_reason) and one under it
\* (kept whole)
C8_Witness ==
    /\ at = "sampled"
    /\ was_sampled
    /\ sampler.per_reason = 1
    /\ \E i \in 1..Len(decisions) : decisions[i].reason = ""
    /\ NumRejectedUnder(decisions, "unknown") = 2
    /\ NumRejectedUnder(decisions, "price") = 1
    /\ NumRejectedUnder(result, "unknown") = 1
    /\ NumRejectedUnder(result, "price") = 1

SampledAgain == at = "again"

\* C11: idempotence.  For every decision list, when the output of sample() is
\* no longer than threshold, sample() applied to that output returns it
\* unchanged, same decisions in the same order, with was_sampled = false.
C11_IdempotentUnderThreshold ==
    (SampledAgain /\ Len(result) <= sampler.threshold) =>
        (result_again = result /\ was_sampled_again = FALSE)

\* sample() cut a list longer than threshold down to exactly threshold
\* decisions, and the second sample() was given that output
C11_Witness ==
    /\ SampledAgain
    /\ was_sampled
    /\ Len(result) < Len(decisions)
    /\ Len(result) = sampler.threshold
    /\ sampler.threshold > 0
    /\ result_again = result

\* C17 as stated: with threshold = 0, sample() returns was_sampled = true for
\* every decision list.
C17_ZeroThresholdAlwaysSamples ==
    (SampleReturned /\ sampler.threshold = 0) => was_sampled = TRUE

\* C17, amended: with threshold = 0, sample() returns was_sampled = true for
\* every decision list that is not empty, and was_sampled = false with an
\* empty output for the empty list.
C17_ZeroThresholdSamplesNonEmpty ==
    (SampleReturned /\ sampler.threshold = 0) =>
        IF decisions # <<>>
        THEN was_sampled = TRUE
        ELSE was_sampled = FALSE /\ result = <<>>

\* with threshold = 0, sample() was given a single accepted decision, dropped
\* nothing and reported was_sampled = true
C17_Witness ==
    /\ at = "sampled"
    /\ sampler.threshold = 0
    /\ Len(decisions) = 1
    /\ decisions[1].decision_type = "accepted"
    /\ result = decisions
    /\ was_sampled = TRUE

\* C18: was_sampled reports the threshold breach, not a reduction.  For every
\* list longer than threshold in which every rejection-reason group has at most
\* per_reason decisions, sample() returns was_sampled = true and an output
\* that holds every input decision (output size = input size).
C18_BreachWithoutReduction ==
    (/\ SampleReturned
     /\ Len(decisions) > sampler.threshold
     /\ \A k \in Reasons \cup {"unknown"} :
          NumRejectedUnder(decisions, k) <= sampler.per_reason) =>
        /\ was_sampled = TRUE
        /\ Len(result) = Len(decisions)
        /\ \A i \in 1..Len(decisions) :
             Occurrences(result, decisions[i]) = Occurrences(decisions, decisions[i])

\* a list over the threshold with two rejection-reason groups, each exactly
\* at per_reason, and an accepted decision came out of sample() complete
C18_Witness ==
    /\ at = "sampled"
    /\ sampler.per_reason = 1
    /\ Len(decisions) = 3
    /\ Len(decisions) > sampler.threshold
    /\ NumRejectedUnder(decisions, "unknown") = 1
    /\ NumRejectedUnder(decisions, "price") = 1
    /\ NumOfType(decisions, "accepted") = 1
    /\ was_sampled = TRUE
    /\ Len(result) = 3

\* what sample() returns for the argument of invocation i on a generator of
\* its own, started in the state seed
OwnGeneratorOutput(i) ==
    sample_on(seed, invocations[i].input, sampler.threshold, sampler.per_reason).list

\* C16: the random source of sample() is per-invocation or synchronized: the
\* decisions an invocation chooses for a given seed are those it chooses when
\* it runs alone from that seed, whether or not other invocations share the
\* generator and however they are ordered with it.
C16_ChoiceIndependentOfOthers ==
    \A i \in DOMAIN invocations :
        invocations[i].done => invocations[i].output = OwnGeneratorOutput(i)

\* C27: for every decision list and every draw, the output of sample() is a
\* sub-multiset of its input: every decision of the output is in the input at
\* least as often, so the output is never longer than the input.
C27_OutputSubMultiset ==
    SampleReturned =>
        /\ \A i \in 1..Len(result) :
             Occurrences(result, result[i]) <= Occurrences(decisions, result[i])
        /\ Len(result) <= Len(decisions)

\* sample() cut a group of three rejected decisions down to one
C27_Witness ==
    /\ at = "sampled"
    /\ was_sampled
    /\ sampler.per_reason = 1
    /\ NumRejectedUnder(decisions, "price") = 3
    /\ Len(result) = 1
    /\ \E i \in 1..3 : result[1] = decisions[i]

\* the decisions of s as a multiset: how often each occurs
SameDecisions(s, t) ==
    /\ Len(s) = Len(t)
    /\ \A i \in 1..Len(s) : Occurrences(s, s[i]) = Occurrences(t, s[i])
\* two rejected decisions of s with different reasons have the same sort key
ReasonsTied(s) ==
    \E i, j \in 1..Len(s) :
        /\ IsRejected(s[i]) /\ IsRejected(s[j])
        /\ ReasonKey(s[i]) # ReasonKey(s[j])
        /\ SequenceKey(s[i]) = SequenceKey(s[j])

\* C30 as stated: for every list and every draw, sample() applied to the
\* output of sample() returns the same decisions in the same order, also when
\* that output is longer than threshold and when decisions share a sequence
\* value or carry none.
C30_IdempotentAlways ==
    SampledAgain => result_again = result

\* C30, amended: sample() applied to the output of sample() returns the same
\* decisions, and in the same order unless two rejected decisions of different
\* reasons in that output share a sequence value (or both carry none).
C30_IdempotentUpToTiedReasons ==
    SampledAgain =>
        /\ SameDecisions(result_again, result)
        /\ ~ReasonsTied(result) => result_again = result

\* an output longer than threshold, with an accepted and a rejected decision
\* that carry no sequence, was sampled again and came back as it was
C30_Witness ==
    /\ SampledAgain
    /\ was_sampled /\ was_sampled_again
    /\ Len(result) < Len(decisions)
    /\ Len(result) > sampler.threshold
    /\ \E i, j \in 1..Len(result) :
         /\ IsAccepted(result[i]) /\ IsRejected(result[j])
         /\ SequenceKey(result[i]) = SequenceKey(result[j])
    /\ result_again = result

\* every rejection-reason group of ds has at most per_reason decisions
NoDrawNeeded(ds, per_reason) ==
    \A k \in Reasons \cup {"unknown"} : NumRejectedUnder(ds, k) <= per_reason

\* C24: sample() is deterministic when no randomness is needed.  For every
\* list in which every rejection-reason group has at most per_reason
\* decisions, a group of exactly per_reason included, two executions of
\* sample() on the list return the same output, and neither draws from the
\* generator.
C24_DeterministicWithoutDraw ==
    \A i \in DOMAIN invocations :
        (invocations[i].done
            /\ NoDrawNeeded(invocations[i].input, sampler.per_reason)) =>
            /\ invocations[i].after = invocations[i].before
            /\ \A j \in DOMAIN invocations :
                 (invocations[j].done /\ invocations[j].input = invocations[i].input)
                    => invocations[j].output = invocations[i].output

\* two invocations got the same list over the threshold, with a group exactly
\* at per_reason, and both have returned
C24_Witness ==
    /\ invocations[1].done /\ invocations[2].done
    /\ invocations[1].input = invocations[2].input
    /\ invocations[1].flag = TRUE
    /\ NumRejectedUnder(invocations[1].input, "price") = sampler.per_reason
    /\ NoDrawNeeded(invocations[1].input, sampler.per_reason)
    /\ Len(invocations[1].output) = Len(invocations[1].input)

\* ---------------------------------------------------------------------------
\* Properties of record_step (Spec)
\* ---------------------------------------------------------------------------
RecordStepHandled == request.op = "record_step"
\* N and M of the submission handled last
SubmittedN == IF request.decisions = NoneOpt THEN 0 ELSE Len(request.decisions[1])
SubmittedM == IF request.evidence = NoneOpt THEN 0 ELSE Len(request.evidence[1])
\* the decision list submitted, the empty list when none was given
SubmittedDecisions == IF request.decisions = NoneOpt THEN <<>> ELSE request.decisions[1]
\* the rows of table t that belong to the step with id step_id, in table order
RowsOfStep(t, step_id) == FilterSeq(t, {i \in 1..Len(t) : t[i].step_id = step_id})
StrictlyAscending(rows) ==
    \A i, j \in 1..Len(rows) :
        i < j => SequenceKey([metadata |-> rows[i].meta_data])
                   < SequenceKey([metadata |-> rows[j].meta_data])

\* C1: record_step answers 413 exactly when N > MAX_DECISIONS_PER_STEP or
\* M > MAX_EVIDENCE_PER_STEP; a submission at both limits is not rejected by
\* the guardrail.
C1_GuardrailExactlyOverLimit ==
    RecordStepHandled =>
        (response.status = 413
            <=> (SubmittedN > MAX_DECISIONS_PER_STEP \/ SubmittedM > MAX_EVIDENCE_PER_STEP))

\* a submission with N and M at their limits got past the guardrail
C1_Witness ==
    /\ RecordStepHandled
    /\ SubmittedN = MAX_DECISIONS_PER_STEP
    /\ SubmittedM = MAX_EVIDENCE_PER_STEP
    /\ response.status \notin {0, 413}

\* C2: a record_step that fails with 413, 404 or 400 leaves the committed
\* store as it was before the request.
C2_FailedStepPersistsNothing ==
    [][(request'.op = "record_step" /\ request.op = "none"
            /\ response'.status \in {413, 404, 400})
        => db' = db]_vars

\* a submission was rejected with 400 after its step was flushed and its
\* decisions were added, and the store, which holds an earlier step, has no
\* row of it
C2_Witness ==
    /\ RecordStepHandled
    /\ response.status = 400
    /\ session.step # NoneOpt
    /\ session.decisions # <<>>
    /\ Len(db.steps) = 1
    /\ session.step[1].id \notin {db.steps[i].id : i \in 1..Len(db.steps)}
    /\ \A i \in 1..Len(db.decisions) : db.decisions[i].step_id # session.step[1].id

\* C5 as stated: for every accepted submission, the stats of the response and
\* of the stored step are compute_stats of the complete submitted list.
C5_StatsOfEveryAcceptedSubmission ==
    (RecordStepHandled /\ response.status = 201) =>
        /\ response.stats = Some(compute_stats(SubmittedDecisions))
        /\ db.steps[response.step_id].stats = Some(compute_stats(SubmittedDecisions))

\* C5, amended: for every accepted submission with at least one decision, the
\* stats of the response and of the stored step are compute_stats of the
\* complete submitted list, never of the reduced list; a submission without
\* decisions (absent or empty list) has no stats (null).
C5_StatsOfCompleteList ==
    (RecordStepHandled /\ response.status = 201) =>
        IF SubmittedDecisions # <<>>
        THEN /\ response.stats = Some(compute_stats(SubmittedDecisions))
             /\ db.steps[response.step_id].stats = Some(compute_stats(SubmittedDecisions))
        ELSE /\ response.stats = NoneOpt
             /\ db.steps[response.step_id].stats = NoneOpt

\* a submission of three decisions, two of them rejected, was accepted and
\* reduced to two stored decisions; its rejection_rate is 2/3
C5_Witness ==
    /\ RecordStepHandled
    /\ response.status = 201
    /\ response.sampling_summary = Some([total |-> 3, kept |-> 2, sampled |-> TRUE])
    /\ response.stats[1].rejection_rate = <<2, 3>>
    /\ Len(RowsOfStep(db.decisions, response.step_id)) = 2

\* C9: the decisions stored for a step are strictly ordered by ascending
\* metadata sequence, sampled or not, whether or not the caller put sequence
\* values of its own in the metadata.
C9_StoredStrictlyAscending ==
    \A k \in 1..Len(db.steps) :
        StrictlyAscending(RowsOfStep(db.decisions, db.steps[k].id))

\* C10: the sequence in the metadata of every decision after normalisation is
\* the decision's index in the submitted list, and the decision is stored with
\* it (candidate_id i is the decision at index i - 1 of the submission).
C10_SequenceIsSubmissionIndex ==
    RecordStepHandled =>
        \A i \in 1..Len(session.decisions) :
            session.decisions[i].meta_data = <<session.decisions[i].candidate_id - 1>>

\* the submission handled last got past the size checks and the run lookup
PastEarlyChecks == RecordStepHandled /\ response.status \notin {413, 404}
\* the number of decisions that remain after sampling: the Decision rows the
\* handler created for the submission
CreatedN == Len(session.decisions)
\* the Decision rows stored for the step of the response, in table order
StoredOfResponse == RowsOfStep(db.decisions, response.step_id)
\* the Evidence rows of the store bound to the decision row d
EvidenceOf(d) == {i \in 1..Len(db.evidence) : db.evidence[i].decision_id = d.id}
Called(c) == \E i \in 1..Len(calls) : calls[i] = c

\* C12: a submission for an existing run and within the size limits is
\* rejected with 400 whenever it has more evidence items than decisions remain
\* after sampling, also when it has no more evidence items than decisions
\* submitted; it is not rejected with 400 when the evidence count is at most
\* the number of remaining decisions and at least one decision remains.
C12_EvidenceOverStoredRejected ==
    PastEarlyChecks =>
        /\ (SubmittedM > CreatedN) => response.status = 400
        /\ (SubmittedM <= CreatedN /\ CreatedN >= 1) => response.status # 400

\* three decisions were submitted with two evidence items, sampling left one
\* decision, and the submission was rejected with 400
C12_Witness ==
    /\ RecordStepHandled
    /\ SubmittedN = 3
    /\ SubmittedM = 2
    /\ was_sampled = TRUE
    /\ CreatedN = 1
    /\ response.status = 400

\* C13: a submission for an existing run and within the size limits is
\* rejected with 400 whenever it carries at least one evidence item and no
\* decision remains, which is when the decisions are missing or empty; without
\* decisions and with an absent or empty evidence list it succeeds.
C13_EvidenceWithoutDecisionsRejected ==
    PastEarlyChecks =>
        /\ (CreatedN = 0) <=> (SubmittedN = 0)
        /\ (SubmittedM >= 1 /\ CreatedN = 0) => response.status = 400
        /\ (SubmittedN = 0 /\ SubmittedM = 0) => response.status = 201

\* a submission with an empty decision list and one evidence item was
\* rejected with 400
C13_Witness ==
    /\ RecordStepHandled
    /\ request.decisions = Some(<<>>)
    /\ SubmittedM = 1
    /\ CreatedN = 0
    /\ response.status = 400

\* C14: a submission for an existing run with k evidence items and n
\* decisions remaining after sampling, 1 <= k <= n and within the size limits,
\* is recorded, evidence item i is bound to the stored decision at position i
\* for every i < k, the stored decisions at positions k..n-1 have no evidence,
\* and every stored decision has at most one evidence record.
C14_EvidenceBoundPositionally ==
    (PastEarlyChecks /\ SubmittedM >= 1 /\ SubmittedM <= CreatedN) =>
        /\ response.status = 201
        /\ Len(StoredOfResponse) = CreatedN
        /\ \A i \in 1..CreatedN :
             /\ Cardinality(EvidenceOf(StoredOfResponse[i])) <= 1
             /\ i <= SubmittedM =>
                  \E e \in EvidenceOf(StoredOfResponse[i]) :
                      db.evidence[e].data = request.evidence[1][i]
             /\ i > SubmittedM => EvidenceOf(StoredOfResponse[i]) = {}

\* C15: for every successful record_step with at least one decision, the
\* sampling summary has total = the number of decisions submitted, kept = the
\* number of decisions stored for the step and sampled = the flag sample()
\* returned; so kept <= total, and sampled = false implies kept = total.
C15_SamplingSummaryValues ==
    (RecordStepHandled /\ response.status = 201 /\ SubmittedN >= 1) =>
        /\ response.sampling_summary # NoneOpt
        /\ response.sampling_summary[1].total = SubmittedN
        /\ response.sampling_summary[1].kept = Len(StoredOfResponse)
        /\ response.sampling_summary[1].sampled = was_sampled
        /\ response.sampling_summary[1].kept <= response.sampling_summary[1].total
        /\ (response.sampling_summary[1].sampled = FALSE) =>
             response.sampling_summary[1].kept = response.sampling_summary[1].total

\* a submission longer than the threshold was recorded with every decision
\* kept: total = kept and sampled = true
C15_Witness ==
    /\ RecordStepHandled
    /\ response.status = 201
    /\ SubmittedN > sampler.threshold
    /\ Len(StoredOfResponse) = SubmittedN
    /\ response.sampling_summary[1].sampled = TRUE

\* C19: the size checks come first.  A submission over either limit is
\* rejected with 413 before the run is looked up, before compute_stats and
\* sample are called and before anything is written, also when its run does
\* not exist (413, not 404).
C19_GuardrailFirst ==
    (RecordStepHandled
        /\ (SubmittedN > MAX_DECISIONS_PER_STEP \/ SubmittedM > MAX_EVIDENCE_PER_STEP)) =>
        /\ response.status = 413
        /\ calls = <<>>
        /\ session.step = NoneOpt /\ session.decisions = <<>> /\ session.evidence = <<>>

\* a submission with too many evidence items for a run that does not exist
\* was rejected with 413
C19_Witness ==
    /\ RecordStepHandled
    /\ SubmittedM > MAX_EVIDENCE_PER_STEP
    /\ SubmittedN <= MAX_DECISIONS_PER_STEP
    /\ request.run_id \notin RunIds(db)
    /\ response.status = 413
    /\ calls = <<>>

\* C20: when record_step raises GuardrailExceeded (413) or
\* EvidenceBindingError (400), it has issued no write for the submission: no
\* step row was added or flushed and no decision row was added.
C20_ErrorsBeforeWrites ==
    (RecordStepHandled /\ response.status \in {413, 400}) =>
        /\ ~Called("add_step") /\ ~Called("flush") /\ ~Called("add_decision")
        /\ session.step = NoneOpt
        /\ session.decisions = <<>>

\* the submission handled last carries no sequence of the caller's
NoCallerSequence ==
    \A i \in 1..Len(SubmittedDecisions) : SubmittedDecisions[i].metadata = <<>>
\* row is the stored form of the decision at index row.candidate_id - 1 of the
\* submission handled last (candidate_id i is the decision at index i - 1)
RowOfSubmitted(row) ==
    /\ row.candidate_id \in 1..Len(SubmittedDecisions)
    /\ row.decision_type = SubmittedDecisions[row.candidate_id].decision_type
    /\ row.reason = SubmittedDecisions[row.candidate_id].reason

\* C23: when the submitted decisions carry no sequence of the caller's, the
\* stored decisions are a subsequence of the submitted ones: each is a
\* submitted decision, and any two are in the order of the submission,
\* whatever their type, reason group or the order of the draw.
C23_StoredIsSubsequence ==
    (RecordStepHandled /\ response.status = 201 /\ NoCallerSequence) =>
        /\ \A i \in 1..Len(StoredOfResponse) : RowOfSubmitted(StoredOfResponse[i])
        /\ \A i, j \in 1..Len(StoredOfResponse) :
             i < j => StoredOfResponse[i].candidate_id < StoredOfResponse[j].candidate_id

\* of [rejected, rejected, accepted] the first rejected decision and the
\* accepted one were stored, the rejected one first
C23_Witness ==
    /\ RecordStepHandled
    /\ response.status = 201
    /\ NoCallerSequence
    /\ SubmittedN = 3
    /\ IsRejected(SubmittedDecisions[1]) /\ IsAccepted(SubmittedDecisions[3])
    /\ Len(StoredOfResponse) = 2
    /\ StoredOfResponse[1].candidate_id = 1
    /\ StoredOfResponse[2].candidate_id = 3

\* C26: the decisions stored for a step with k kept decisions have the
\* sequence_order values 0..k-1, by position in the reduced list, and of two
\* stored decisions the one with the smaller sequence_order never has the
\* larger metadata sequence.
C26_SequenceOrderFollowsSequence ==
    \A k \in 1..Len(db.steps) :
        LET rows == RowsOfStep(db.decisions, db.steps[k].id)
        IN /\ \A i \in 1..Len(rows) : rows[i].sequence_order = i - 1
           /\ \A i, j \in 1..Len(rows) :
                rows[i].sequence_order < rows[j].sequence_order =>
                    SequenceKey([metadata |-> rows[i].meta_data])
                      <= SequenceKey([metadata |-> rows[j].meta_data])

\* the stored part of the audit trail of step k of the store d
TrailOfStep(d, k) ==
    [step |-> d.steps[k],
     decisions |-> RowsOfStep(d.decisions, d.steps[k].id),
     evidence |-> {d.evidence[e] : e \in {x \in 1..Len(d.evidence) :
                     \E i \in 1..Len(d.decisions) :
                        /\ d.decisions[i].step_id = d.steps[k].id
                        /\ d.evidence[x].decision_id = d.decisions[i].id}}]
\* the fields of a run that complete_run does not set
RunFrame(run) == [id |-> run.id, started_at |-> run.started_at]

\* C22: append-only audit trail.  No API operation changes or removes the
\* stats, decisions or evidence of a step that is stored, and complete_run
\* changes nothing but output_result, status and completed_at of its run.
C22_AppendOnly ==
    [][/\ \A k \in 1..Len(db.steps) :
            /\ k <= Len(db'.steps)
            /\ TrailOfStep(db', k) = TrailOfStep(db, k)
       /\ (request.op = "none" /\ request'.op = "complete_run") =>
            /\ db'.steps = db.steps
            /\ db'.decisions = db.decisions
            /\ db'.evidence = db.evidence
            /\ Len(db'.runs) = Len(db.runs)
            /\ \A r \in RunIds(db) :
                 /\ RunFrame(db'.runs[r]) = RunFrame(db.runs[r])
                 /\ r # request'.run_id => db'.runs[r] = db.runs[r]]_vars

\* a run with a stored step that has decisions was completed
C22_Witness ==
    /\ request.op = "complete_run"
    /\ response.status = 200
    /\ db.runs[request.run_id].status = "completed"
    /\ \E k \in 1..Len(db.steps) :
         /\ db.steps[k].run_id = request.run_id
         /\ Len(RowsOfStep(db.decisions, db.steps[k].id)) >= 2

RunFinal(run) ==
    run.status \in {"completed", "failed", "cancelled"} /\ run.completed_at # NoneOpt
RunOpen(run) == run.status = "running" /\ run.completed_at = NoneOpt
CompleteRunSucceeds ==
    request.op = "none" /\ request'.op = "complete_run" /\ response'.status = 200

\* C28: run lifecycle.  A run is "running" without completed_at from
\* create_run until the first successful complete_run; after a complete_run
\* its status is one of completed, failed, cancelled and completed_at is set;
\* no operation returns a run to "running"; complete_run on a run id that does
\* not exist answers 404 and changes no run.
C28_RunLifecycle ==
    [][/\ \A r \in RunIds(db') : RunOpen(db'.runs[r]) \/ RunFinal(db'.runs[r])
       /\ \A r \in RunIds(db') \ RunIds(db) : RunOpen(db'.runs[r])
       /\ \A r \in RunIds(db) :
            /\ r \in RunIds(db')
            /\ RunFinal(db.runs[r]) => RunFinal(db'.runs[r])
            /\ (CompleteRunSucceeds /\ request'.run_id = r) => RunFinal(db'.runs[r])
            /\ ~(CompleteRunSucceeds /\ request'.run_id = r) => db'.runs[r] = db.runs[r]
       /\ (request.op = "none" /\ request'.op = "complete_run"
             /\ request'.run_id \notin RunIds(db)) =>
            (response'.status = 404 /\ db'.runs = db.runs)]_vars

\* a run that was completed as failed has been completed again as cancelled
C28_Witness ==
    /\ request.op = "complete_run"
    /\ response.status = 200
    /\ request.status = "cancelled"
    /\ db.runs[request.run_id].status = "cancelled"
    /\ db.runs[request.run_id].output_result = NoneOpt
    /\ Len(db.steps) >= 1

\* the steps stored for run r, in the order they were committed
StepsOfRun(d, r) ==
    FilterSeq(d.steps, {k \in 1..Len(d.steps) : d.steps[k].run_id = r})

\* C21: for every interleaving of record_step requests, the steps stored for
\* a run have the sequence_order values 0..n-1 in the order they were
\* recorded, pairwise distinct.
C21_StepsTotallyOrdered ==
    \A r \in RunIds(db) :
        \A k \in 1..Len(StepsOfRun(db, r)) :
            StepsOfRun(db, r)[k].sequence_order = k - 1

\* worker w has committed its step
Committed(w) == workers[w].pc = "done" /\ workers[w].status = 201
\* the step rows are those of workers that committed, each with all the
\* decisions its worker kept
CompleteSteps(step_rows, decision_rows) ==
    \A k \in 1..Len(step_rows) :
        /\ Committed(step_rows[k].id)
        /\ RowsOfStep(decision_rows, step_rows[k].id) = workers[step_rows[k].id].created

\* C25: a step is persisted all-or-nothing.  What a query can read, and what
\* a query has read when it answers, holds a step only together with all its
\* kept decisions; the step of a request that is in flight, was aborted or
\* failed is absent.
C25_AllOrNothing ==
    /\ CompleteSteps(Visible(db, workers).steps, Visible(db, workers).decisions)
    /\ reader.pc = "observed" => CompleteSteps(reader.steps, reader.decisions)
    /\ \A k \in 1..Len(db.evidence) :
          \E i \in 1..Len(db.decisions) : db.evidence[k].decision_id = db.decisions[i].id

\* a query has answered with the committed step of one worker and its two
\* decisions while the step row of the other worker sits flushed in an open
\* transaction
C25_Witness ==
    /\ reader.pc = "observed"
    /\ reader.op = "get_run"
    /\ Len(reader.steps) = 1
    /\ Len(reader.decisions) = 2
    /\ \E w \in 1..MaxWorkers :
          /\ workers[w].pc \in {"add", "commit"}
          /\ workers[w].transaction.step # NoneOpt
          /\ workers[w].run_id = reader.run_id
          /\ Truthy(workers[w].step_input.decisions)

\* C29: the SDK client fails open.  A disabled client sends no request and
\* returns None; record_step and complete_run with a None or empty run_id send
\* no request and return None; a call whose request fails returns None; no
\* call of start_run, record_step or complete_run raises into the pipeline.
C29_FailsOpen ==
    /\ ~client.last.raised
    /\ ~client.enabled => client.sent = 0 /\ client.last.returned = NoneOpt
    /\ (client.last.op \in {"record_step", "complete_run"}
          /\ ~TruthyRunId(client.last.run_id)) =>
            ~client.last.sent /\ client.last.returned = NoneOpt
    /\ client.last.outcome \in Exceptions => client.last.returned = NoneOpt
    /\ (client.last.op = "start_run" /\ client.last.outcome # "ok") =>
            client.run_id = NoneOpt
    /\ client.sent <= client.calls

\* after a start_run whose response was no JSON, the pipeline has called
\* record_step with the None it got and then complete_run with a run id, and
\* that request timed out
C29_Witness ==
    /\ client.enabled
    /\ client.calls = 3
    /\ client.run_id = NoneOpt
    /\ client.sent = 2
    /\ client.last.op = "complete_run"
    /\ client.last.run_id = Some("run-1")
    /\ client.last.outcome = "TimeoutException"
    /\ client.last.returned = NoneOpt

====
